---- MODULE Spec2Model ----
(***************************************************************************)
(* Model of the py_stringsimjoin join workers and their drivers:           *)
(*   set_sim_join (called by jaccard_join and dice_join),                  *)
(*   _edit_distance_join_split (called by edit_distance_join),             *)
(*   _black_box_join_split (called by black_box_join),                     *)
(* with the position index and the position filter they are built on,      *)
(* overlap_join, PositionFilter.filter_pair and filter_tables, SizeIndex,   *)
(* and the batching helpers of utils/mur_utils.py.                         *)
(*                                                                         *)
(* A join-attribute string is a sequence of symbols.  The word tokenizer   *)
(* used with the set-similarity joins yields one token per symbol; the     *)
(* q-gram tokenizer used with the edit-distance join yields the q-grams of *)
(* the (optionally padded) symbol sequence.  A threshold of a fractional   *)
(* measure or of the edit-distance join is a rational <<num, den>>; a      *)
(* similarity score is a reduced rational <<num, den>>.                    *)
(***************************************************************************)
EXTENDS Integers, Sequences, FiniteSets, TLC

VARIABLES
    pc,                 \* position of the invocation
    join_type,          \* what is called: a driver ("JACCARD", "DICE", "EDIT_DISTANCE",
                        \* "BLACK_BOX", "OVERLAP"), a sink, a filter or an index
    ltable, rtable,     \* the two input tables: sequences of [key, attr]
    tokenizer,          \* the caller's tokenizer object
    threshold,          \* <<num, den>> (fractional measures, edit distance) or an integer
    comp_op,            \* comparison operator given to the driver
    allow_empty,        \* allow_empty flag given to the driver
    sim_function,       \* black box similarity function (its name)
    revert_flag,        \* revert_tokenizer_return_set_flag of the driver
    token_ordering,     \* token -> rank
    l_join_attr_dict,   \* set_sim_join: l key -> ordered token list
    position_index,     \* [index, size_map] of PositionIndex
    prefix_index,       \* PrefixIndex.index of the edit distance join
    l_join_attr_list,   \* _edit_distance_join_split: string lengths of ltable rows
    l_join_tokens_cached, \* _black_box_join_split: l key -> token list
    r_idx,              \* index of the next rtable row to probe
    candidate_overlap,  \* the candidate map of the last probe
    sim_calls,          \* the calls made to the similarity function: <<l value, r value>>
    output_rows,        \* the rows emitted so far: [l_id, r_id, score]
    invalid,            \* the validation the arguments fail, or "none"
    orig_return_set,    \* the tokenizer's return_set flag when the driver was called
    orig_join_attr_type, \* dtypes of the two join columns when the driver was called
    raises_at,          \* the rtable row at whose probe tokenization or the
                        \* similarity function raises (0: none does)
    size,               \* the size argument of ration_output
    join_attr_dtype,    \* the dtypes of the two join columns now
    returned,           \* what the call returned to its caller
    generator_function, \* the generator a sink consumes: the items it has yet to give
    reservoir,          \* ration_output: the results held for the next batch
    csv_file,           \* the rows of the file consume_into_csvfile writes
    filter_measure,     \* sim_measure_type of the PositionFilter, or "none"
    pair_result,        \* what the last call of filter_pair did and returned
    batches,            \* the batches ration_output has yielded so far
    results,            \* the results the generator holds when the sink is called
    size_index          \* [index, min_length, max_length] of SizeIndex

vars == <<pc, join_type, ltable, rtable, tokenizer, threshold, comp_op,
          allow_empty, sim_function, revert_flag, token_ordering,
          l_join_attr_dict, position_index, prefix_index, l_join_attr_list,
          l_join_tokens_cached, r_idx, candidate_overlap, sim_calls,
          output_rows,
          invalid, orig_return_set, orig_join_attr_type, raises_at, size,
          join_attr_dtype, returned, generator_function, reservoir, csv_file,
          filter_measure, pair_result, batches, results, size_index>>

----------------------------------------------------------------------------
(* Bounds of the explored inputs *)

NumTokens == 3      \* symbols of the set-similarity tables: 1..NumTokens
MaxLen == 2         \* longest join string of the set-similarity tables
NumChars == 2       \* symbols of the edit-distance / black-box tables
MaxStrLen == 3      \* longest join string of the edit-distance / black-box tables
MaxRows == 3        \* rows of ltable plus rows of rtable
MaxDen == 3         \* largest denominator of a fractional threshold
MaxEdThreshold == 2 \* largest edit-distance threshold
MaxLongLen == 6     \* longest join string of the tables with a long row
MaxResults == 4     \* most results a generator gives to a sink
NumFilterTokens == 4 \* number of distinct words in the strings given to PositionFilter
MaxFilterLen == 4   \* largest number of words in a string given to PositionFilter
MaxSize == 2        \* largest size argument of ration_output

----------------------------------------------------------------------------
(* Sequences and rationals *)

Range(s) == { s[i] : i \in DOMAIN s }

RECURSIVE SeqsUpTo(_, _)
SeqsUpTo(S, n) ==
    IF n = 0 THEN { <<>> }
    ELSE LET shorter == SeqsUpTo(S, n - 1)
         IN  shorter \cup { Append(s, x) : s \in { t \in shorter : Len(t) = n - 1 }, x \in S }

RECURSIVE Dedupe(_)
Dedupe(s) ==
    IF s = <<>> THEN <<>>
    ELSE LET front == Dedupe(SubSeq(s, 1, Len(s) - 1))
             last  == s[Len(s)]
         IN  IF last \in Range(front) THEN front ELSE Append(front, last)

RECURSIVE Flatten(_)
Flatten(ss) ==
    IF ss = <<>> THEN <<>> ELSE Head(ss) \o Flatten(Tail(ss))

\* f as an explicit table of its values (a function constructor is evaluated
\* anew at every application)
Table(f) == f @@ <<>>

Min(a, b) == IF a <= b THEN a ELSE b
Max(a, b) == IF a >= b THEN a ELSE b

CeilDiv(a, b) == (a + b - 1) \div b
FloorDiv(a, b) == a \div b

RECURSIVE GCD(_, _)
GCD(a, b) == IF b = 0 THEN a ELSE GCD(b, a % b)

Reduce(n, d) == LET g == GCD(n, d) IN <<n \div g, d \div g>>

\* q1 >= q2, q1 > q2, q1 = q2 on rationals with positive denominators
RatGe(q1, q2) == q1[1] * q2[2] >= q2[1] * q1[2]
RatGt(q1, q2) == q1[1] * q2[2] > q2[1] * q1[2]
RatEq(q1, q2) == q1[1] * q2[2] = q2[1] * q1[2]

----------------------------------------------------------------------------
(* Tokenizers (py_stringmatching objects handed in by the caller) *)

PrefixPad == NumChars + 1
SuffixPad == NumChars + 2
QgramBase == NumChars + 3

\* a q-gram as one comparable token
RECURSIVE QgramCode(_)
QgramCode(g) ==
    IF g = <<>> THEN 0 ELSE QgramCode(SubSeq(g, 1, Len(g) - 1)) * QgramBase + g[Len(g)]

Pad(s, q, padding) ==
    IF padding
    THEN [i \in 1..(q - 1) |-> PrefixPad] \o s \o [i \in 1..(q - 1) |-> SuffixPad]
    ELSE s

QgramTokens(s, q, padding) ==
    LET p == Pad(s, q, padding)
    IN  IF Len(p) < q THEN <<>>
        ELSE [i \in 1..(Len(p) - q + 1) |-> QgramCode(SubSeq(p, i, i + q - 1))]

\* tokenizer.tokenize(string)
tokenizer_tokenize(tk, s) ==
    LET raw == IF tk.kind = "word" THEN s ELSE QgramTokens(s, tk.qval, tk.padding)
    IN  IF tk.return_set THEN Dedupe(raw) ELSE raw

IsSetMeasure(m) == m \in {"JACCARD", "DICE", "COSINE"}

\* utils.tokenizers.tokenize(string, tokenizer, sim_measure_type): the token
\* mode the measure mandates
tokenize(s, tk, m) ==
    IF IsSetMeasure(m) THEN Dedupe(tokenizer_tokenize(tk, s)) ELSE tokenizer_tokenize(tk, s)

----------------------------------------------------------------------------
(* Similarity math of the filters (filter_utils) *)

\* the number of tokens a record of num_tokens tokens must share with a match
MinOverlapOfSize(num_tokens, m, t) ==
    IF m = "JACCARD" THEN CeilDiv(t[1] * num_tokens, t[2])
    ELSE CeilDiv(t[1] * num_tokens, 2 * t[2] - t[1])

get_prefix_length(num_tokens, m, t, tk) ==
    IF m = "EDIT_DISTANCE"
    THEN Max(0, Min(num_tokens, tk.qval * t + 1))
    ELSE Max(0, Min(num_tokens, num_tokens - MinOverlapOfSize(num_tokens, m, t) + 1))

get_size_lower_bound(num_tokens, m, t) ==
    MinOverlapOfSize(num_tokens, m, t)

get_size_upper_bound(num_tokens, m, t) ==
    IF m = "JACCARD" THEN FloorDiv(num_tokens * t[2], t[1])
    ELSE FloorDiv(num_tokens * (2 * t[2] - t[1]), t[1])

get_overlap_threshold(l_num_tokens, r_num_tokens, m, t, tk) ==
    IF m = "JACCARD"
    THEN CeilDiv(t[1] * (l_num_tokens + r_num_tokens), t[2] + t[1])
    ELSE CeilDiv(t[1] * (l_num_tokens + r_num_tokens), 2 * t[2])

----------------------------------------------------------------------------
(* Similarity functions (simfunctions.get_sim_function) *)

\* Jaccard and Dice over two token lists, with set semantics; 1 when both are empty
get_sim_function(m, x, y) ==
    LET X == Range(x)
        Y == Range(y)
        i == Cardinality(X \cap Y)
    IN  IF X = {} /\ Y = {} THEN <<1, 1>>
        ELSE IF m = "JACCARD" THEN Reduce(i, Cardinality(X \cup Y))
        ELSE Reduce(2 * i, Cardinality(X) + Cardinality(Y))

\* Levenshtein distance of two strings
RECURSIVE edit_distance(_, _)
edit_distance(x, y) ==
    IF x = <<>> THEN Len(y)
    ELSE IF y = <<>> THEN Len(x)
    ELSE LET xs == SubSeq(x, 1, Len(x) - 1)
             ys == SubSeq(y, 1, Len(y) - 1)
         IN  IF x[Len(x)] = y[Len(y)] THEN edit_distance(xs, ys)
             ELSE 1 + Min(edit_distance(xs, ys), Min(edit_distance(xs, y), edit_distance(x, ys)))

\* COMP_OP_MAP[comp_op](a, b) on integers
comp_fn(op, a, b) ==
    CASE op = ">=" -> a >= b
      [] op = ">"  -> a > b
      [] op = "<=" -> a <= b
      [] op = "<"  -> a < b
      [] op = "="  -> a = b

----------------------------------------------------------------------------
(* Token ordering (token_ordering) *)

\* rows of both tables -> token -> rank: document frequency ascending, then
\* token ascending
gen_token_ordering_for_tables(tables, tk, m) ==
    LET rows  == Flatten(tables)
        toks  == Table([i \in DOMAIN rows |-> Range(tokenize(rows[i].attr, tk, m))])
        all   == UNION { toks[i] : i \in DOMAIN rows }
        df    == Table([t \in all |-> Cardinality({ i \in DOMAIN rows : t \in toks[i] })])
        before(u, t) == df[u] < df[t] \/ (df[u] = df[t] /\ u < t)
    IN  Table([t \in all |-> Cardinality({ u \in all : before(u, t) })])

\* the ranks of the known tokens, ascending
order_using_token_ordering(tokens, ordering) ==
    LET known == SelectSeq(tokens, LAMBDA t : t \in DOMAIN ordering)
        ranks == [i \in DOMAIN known |-> ordering[known[i]]]
    IN  SortSeq(ranks, LAMBDA a, b : a < b)

----------------------------------------------------------------------------
(* PositionIndex (index/position_index.py) *)

\* the ordered token list PositionIndex.build() makes of one row
index_attr_tokens(row, tk, ordering) ==
    order_using_token_ordering(tokenizer_tokenize(tk, row.attr), ordering)

RowPostings_one_based(row, token, tk, m, t, ordering) ==
    LET toks == index_attr_tokens(row, tk, ordering)
        prefix_length == get_prefix_length(Len(toks), m, t, tk)
        hits == SelectSeq([i \in 1..prefix_length |-> i],
                          LAMBDA pos : toks[pos] = token)
    IN  [i \in DOMAIN hits |-> <<row.key, hits[i]>>]

\* the postings one row adds to the list of one token: (row_id, pos) for
\* every prefix position holding the token
RowPostings(row, token, tk, m, t, ordering) ==
    LET toks == index_attr_tokens(row, tk, ordering)
        prefix_length == get_prefix_length(Len(toks), m, t, tk)
        hits == SelectSeq([i \in 1..prefix_length |-> i - 1],
                          LAMBDA pos : toks[pos + 1] = token)
    IN  [i \in DOMAIN hits |-> <<row.key, hits[i]>>]

PrefixTokens(row, tk, m, t, ordering) ==
    LET toks == index_attr_tokens(row, tk, ordering)
    IN  { toks[i] : i \in 1..get_prefix_length(Len(toks), m, t, tk) }

\* PositionIndex.build(): the posting lists and the size map
PositionIndex_build(table, tk, m, t, ordering) ==
    LET indexed == UNION { PrefixTokens(table[i], tk, m, t, ordering) : i \in DOMAIN table }
        keys    == { table[i].key : i \in DOMAIN table }
        rowOf(k) == table[CHOOSE i \in DOMAIN table : table[i].key = k]
    IN  [index |-> Table([token \in indexed |->
                      Flatten([i \in DOMAIN table |->
                                 RowPostings(table[i], token, tk, m, t, ordering)])]),
         size_map |-> Table([k \in keys |-> Len(index_attr_tokens(rowOf(k), tk, ordering))])]

probe_first(pi, token) ==
    IF token \in DOMAIN pi.index THEN SubSeq(pi.index[token], 1, 1) ELSE <<>>

\* PositionIndex.probe(token)
probe(pi, token) == IF token \in DOMAIN pi.index THEN pi.index[token] ELSE <<>>

probe_effect_setdefault(pi, token) ==
    IF token \in DOMAIN pi.index THEN pi
    ELSE [pi EXCEPT !.index = (token :> <<>>) @@ pi.index]

\* the index after PositionIndex.probe(token): index.get(token, []) adds no key
probe_effect(pi, token) == pi

\* the index after the probes of a sequence of tokens
RECURSIVE IndexAfterProbes(_, _)
IndexAfterProbes(pi, tokens) ==
    IF tokens = <<>> THEN pi
    ELSE IndexAfterProbes(probe_effect(pi, Head(tokens)), Tail(tokens))

\* PositionIndex.get_size(row_id)
get_size(pi, row_id) == pi.size_map[row_id]

----------------------------------------------------------------------------
(* PositionFilter._find_candidates (filter/position_filter.py) *)

\* a dict in insertion order: the keys and their values
EmptyDict == [keys |-> <<>>, val |-> <<>>]

DictGet(d, k, default) == IF k \in Range(d.keys) THEN d.val[k] ELSE default

DictPut_as_list(d, k, v) ==
    [keys |-> Append(d.keys, k),
     val  |-> (k :> v) @@ d.val]
DictPut(d, k, v) ==
    [keys |-> IF k \in Range(d.keys) THEN d.keys ELSE Append(d.keys, k),
     val  |-> (k :> v) @@ d.val]

ProbedPostings_reversed(r_ordered_tokens, r_prefix_length, pi) ==
    Flatten([i \in 1..r_prefix_length |->
               LET r_pos == r_prefix_length - i
                   ps == probe(pi, r_ordered_tokens[r_pos + 1])
               IN  [j \in DOMAIN ps |-> <<r_pos, ps[j][1], ps[j][2]>>]])

\* the postings the two nested loops visit, in order: <<r_pos, cand, cand_pos>>
ProbedPostings(r_ordered_tokens, r_prefix_length, pi) ==
    Flatten([i \in 1..r_prefix_length |->
               LET ps == probe(pi, r_ordered_tokens[i])
               IN  [j \in DOMAIN ps |-> <<i - 1, ps[j][1], ps[j][2]>>]])

candidate_step_no_size_check(co, posting, r_num_tokens, m, t, tk, pi) ==
    LET r_pos    == posting[1]
        cand     == posting[2]
        cand_pos == posting[3]
        cand_num_tokens == get_size(pi, cand)
        overlap_upper_bound == 1 + Min(r_num_tokens - r_pos - 1,
                                       cand_num_tokens - cand_pos - 1)
        current_overlap == DictGet(co, cand, 0)
    IN  IF current_overlap + overlap_upper_bound >=
             get_overlap_threshold(cand_num_tokens, r_num_tokens, m, t, tk)
        THEN DictPut(co, cand, current_overlap + 1)
        ELSE DictPut(co, cand, 0)

\* the body of the inner loop for one posting
candidate_step(co, posting, r_num_tokens, m, t, tk, pi) ==
    LET r_pos    == posting[1]
        cand     == posting[2]
        cand_pos == posting[3]
        cand_num_tokens == get_size(pi, cand)
        size_lower_bound == get_size_lower_bound(r_num_tokens, m, t)
        size_upper_bound == get_size_upper_bound(r_num_tokens, m, t)
        overlap_upper_bound == 1 + Min(r_num_tokens - r_pos - 1,
                                       cand_num_tokens - cand_pos - 1)
        current_overlap == DictGet(co, cand, 0)
    IN  IF size_lower_bound <= cand_num_tokens /\ cand_num_tokens <= size_upper_bound
        THEN IF current_overlap + overlap_upper_bound >=
                  get_overlap_threshold(cand_num_tokens, r_num_tokens, m, t, tk)
             THEN DictPut(co, cand, current_overlap + 1)
             ELSE DictPut(co, cand, 0)
        ELSE co

RECURSIVE SweepPostings(_, _, _, _, _, _)
SweepPostings(postings, r_num_tokens, m, t, tk, pi) ==
    IF postings = <<>> THEN EmptyDict
    ELSE candidate_step(
             SweepPostings(SubSeq(postings, 1, Len(postings) - 1), r_num_tokens, m, t, tk, pi),
             postings[Len(postings)], r_num_tokens, m, t, tk, pi)

find_candidates_position_filter(r_ordered_tokens, r_num_tokens, r_prefix_length, m, t, tk, pi) ==
    SweepPostings(ProbedPostings(r_ordered_tokens, r_prefix_length, pi),
                  r_num_tokens, m, t, tk, pi)

----------------------------------------------------------------------------
(* PositionFilter.filter_pair and PositionFilter.filter_tables
   (filter/position_filter.py) *)

\* gen_token_ordering_for_lists: token -> rank over the given token lists,
\* number of lists holding the token ascending, then token ascending
gen_token_ordering_for_lists(token_lists) ==
    LET all == UNION { Range(token_lists[i]) : i \in DOMAIN token_lists }
        df  == Table([t \in all |-> Cardinality({ i \in DOMAIN token_lists : t \in Range(token_lists[i]) })])
        before(u, t) == df[u] < df[t] \/ (df[u] = df[t] /\ u < t)
    IN  Table([t \in all |-> Cardinality({ u \in all : before(u, t) })])

\* filter_pair's l_prefix_dict: l_pos is set to 0 before the loop and the
\* loop never changes it
l_prefix_dict(ordered_ltokens, l_prefix_length) ==
    Table([token \in { ordered_ltokens[i] : i \in 1..l_prefix_length } |-> 0])

pair_overlap_upper_bound_tight(l_num_tokens, l_pos, r_num_tokens, r_pos) ==
    Min(l_num_tokens - l_pos - 1, r_num_tokens - r_pos - 1)

\* filter_pair's overlap_upper_bound on a match
pair_overlap_upper_bound(l_num_tokens, l_pos, r_num_tokens, r_pos) ==
    1 + Min(l_num_tokens - l_pos - 1, r_num_tokens - r_pos - 1)

\* filter_pair's loop over the first k tokens of ordered_rtokens: the overlap
\* counted, whether the loop returned True, and the matches it met
RECURSIVE filter_pair_sweep(_, _, _, _, _, _)
filter_pair_sweep(k, ordered_rtokens, prefix_dict, l_num_tokens, r_num_tokens, overlap_threshold) ==
    IF k = 0 THEN [current_overlap |-> 0, dropped |-> FALSE, matches |-> <<>>]
    ELSE LET acc   == filter_pair_sweep(k - 1, ordered_rtokens, prefix_dict, l_num_tokens,
                                        r_num_tokens, overlap_threshold)
             token == ordered_rtokens[k]
             r_pos == k - 1
         IN  IF acc.dropped \/ token \notin DOMAIN prefix_dict THEN acc
             ELSE LET l_pos == prefix_dict[token]
                      overlap_upper_bound == pair_overlap_upper_bound(l_num_tokens, l_pos,
                                                                      r_num_tokens, r_pos)
                      met == Append(acc.matches,
                                    [token |-> token, l_pos |-> l_pos, r_pos |-> r_pos,
                                     overlap_upper_bound |-> overlap_upper_bound])
                  IN  IF acc.current_overlap + overlap_upper_bound < overlap_threshold
                      THEN [current_overlap |-> acc.current_overlap, dropped |-> TRUE,
                            matches |-> met]
                      ELSE [current_overlap |-> acc.current_overlap + 1, dropped |-> FALSE,
                            matches |-> met]

\* PositionFilter.filter_pair(lstring, rstring): dropped is the value returned
filter_pair(lstring, rstring, tk, m, t) ==
    IF lstring = <<>> \/ rstring = <<>>
    THEN [called |-> TRUE, dropped |-> TRUE, ordered_ltokens |-> <<>>,
          ordered_rtokens |-> <<>>, l_prefix_dict |-> <<>>, matches |-> <<>>]
    ELSE LET ltokens == tokenize(lstring, tk, m)
             rtokens == tokenize(rstring, tk, m)
             ordering == gen_token_ordering_for_lists(<<ltokens, rtokens>>)
             ordered_ltokens == order_using_token_ordering(ltokens, ordering)
             ordered_rtokens == order_using_token_ordering(rtokens, ordering)
             l_num_tokens == Len(ordered_ltokens)
             r_num_tokens == Len(ordered_rtokens)
             l_prefix_length == get_prefix_length(l_num_tokens, m, t, tk)
             r_prefix_length == get_prefix_length(r_num_tokens, m, t, tk)
             prefix_dict == l_prefix_dict(ordered_ltokens, l_prefix_length)
             overlap_threshold == get_overlap_threshold(l_num_tokens, r_num_tokens, m, t, tk)
             swept == filter_pair_sweep(r_prefix_length, ordered_rtokens, prefix_dict,
                                        l_num_tokens, r_num_tokens, overlap_threshold)
         IN  [called |-> TRUE,
              dropped |-> IF swept.dropped THEN TRUE ELSE ~(swept.current_overlap > 0),
              ordered_ltokens |-> ordered_ltokens,
              ordered_rtokens |-> ordered_rtokens,
              l_prefix_dict |-> prefix_dict,
              matches |-> swept.matches]

\* PositionFilter.filter_tables(ltable, rtable, ...): the rows [cand, r_id]
filter_tables(L, R, tk, m, t) ==
    LET ordering == gen_token_ordering_for_tables(<<L, R>>, tk, m)
        pi       == PositionIndex_build(L, tk, m, t, ordering)
    IN  Flatten([j \in DOMAIN R |->
          IF R[j].attr = <<>> THEN <<>>
          ELSE LET r_ordered_tokens == order_using_token_ordering(tokenize(R[j].attr, tk, m), ordering)
                   r_num_tokens     == Len(r_ordered_tokens)
                   r_prefix_length  == get_prefix_length(r_num_tokens, m, t, tk)
                   co == find_candidates_position_filter(r_ordered_tokens, r_num_tokens,
                                                         r_prefix_length, m, t, tk, pi)
                   kept == SelectSeq(co.keys, LAMBDA cand : co.val[cand] > 0)
               IN  [i \in DOMAIN kept |-> <<kept[i], R[j].key>>]])

----------------------------------------------------------------------------
(* SizeIndex (index/size_index.py) *)

\* sys.maxsize: larger than every token count
maxsize == 2147483647

\* a SizeIndex as __init__ leaves it
SizeIndex_init == [index |-> <<>>, min_length |-> maxsize, max_length |-> 0]

SizeIndex_add_keep_min(si, row_id, num_tokens) ==
    [index |-> (num_tokens :> Append(IF num_tokens \in DOMAIN si.index
                                     THEN si.index[num_tokens] ELSE <<>>, row_id))
               @@ si.index,
     min_length |-> si.min_length,
     max_length |-> IF num_tokens > si.max_length THEN num_tokens ELSE si.max_length]

\* the body of the loop of SizeIndex.build() for one row
SizeIndex_add(si, row_id, num_tokens) ==
    [index |-> (num_tokens :> Append(IF num_tokens \in DOMAIN si.index
                                     THEN si.index[num_tokens] ELSE <<>>, row_id))
               @@ si.index,
     min_length |-> IF num_tokens < si.min_length THEN num_tokens ELSE si.min_length,
     max_length |-> IF num_tokens > si.max_length THEN num_tokens ELSE si.max_length]

\* SizeIndex.build() over the first k rows of the table; row_id counts from 0
RECURSIVE SizeIndex_build(_, _, _)
SizeIndex_build(table, tk, k) ==
    IF k = 0 THEN SizeIndex_init
    ELSE SizeIndex_add(SizeIndex_build(table, tk, k - 1), k - 1,
                       Len(tokenizer_tokenize(tk, table[k].attr)))

\* SizeIndex.probe(num_tokens)
SizeIndex_probe(si, num_tokens) ==
    IF num_tokens \in DOMAIN si.index THEN si.index[num_tokens] ELSE <<>>

----------------------------------------------------------------------------
(* set_sim_join (join/set_sim_join.py) *)

\* l_join_attr_dict: l key -> ordered tokens of the row's join string
cache_l_join_attr(table, tk, m, ordering) ==
    LET keys == { table[i].key : i \in DOMAIN table }
        rowOf(k) == table[CHOOSE i \in DOMAIN table : table[i].key = k]
    IN  Table([k \in keys |->
                 order_using_token_ordering(tokenize(rowOf(k).attr, tk, m), ordering)])

\* whether a verified candidate is emitted
emit_condition_swapped(sim_score, t) == RatGe(t, sim_score)
emit_condition(sim_score, t) == RatGe(sim_score, t)

\* the body of the loop over rtable for one row: the candidate map, the calls
\* of the similarity function and the rows appended to output_rows
set_sim_probe(r_row, ldict, pi, ordering, tk, m, t) ==
    LET r_ordered_tokens == order_using_token_ordering(tokenize(r_row.attr, tk, m), ordering)
        r_num_tokens     == Len(r_ordered_tokens)
        r_prefix_length  == get_prefix_length(r_num_tokens, m, t, tk)
        co == find_candidates_position_filter(r_ordered_tokens, r_num_tokens,
                                              r_prefix_length, m, t, tk, pi)
        verified == SelectSeq(co.keys, LAMBDA cand : co.val[cand] > 0)
        sim_score(cand) == get_sim_function(m, ldict[cand], r_ordered_tokens)
        emitted == SelectSeq(verified, LAMBDA cand : emit_condition(sim_score(cand), t))
    IN  [cands |-> co,
         probed |-> SubSeq(r_ordered_tokens, 1, r_prefix_length),
         calls |-> [i \in DOMAIN verified |->
                      [l_id |-> verified[i], r_id |-> r_row.key,
                       l_arg |-> ldict[verified[i]], r_arg |-> r_ordered_tokens]],
         rows  |-> [i \in DOMAIN emitted |->
                      [l_id |-> emitted[i], r_id |-> r_row.key,
                       score |-> sim_score(emitted[i])]]]

\* the rows one call of set_sim_join(ltable, rtable, ...) returns
set_sim_join(L, R, tk, m, t) ==
    LET ordering == gen_token_ordering_for_tables(<<L, R>>, tk, m)
        ldict    == cache_l_join_attr(L, tk, m, ordering)
        pi       == PositionIndex_build(L, tk, m, t, ordering)
    IN  Flatten([j \in DOMAIN R |-> set_sim_probe(R[j], ldict, pi, ordering, tk, m, t).rows])

----------------------------------------------------------------------------
(* PrefixIndex and PrefixFilter (index/prefix_index.py, filter/prefix_filter.py) *)

\* PrefixIndex.build(): token -> positions in the table list of the rows
\* holding the token in their prefix
PrefixIndex_build(table, tk, m, t, ordering) ==
    LET toks == Table([i \in DOMAIN table |->
                  order_using_token_ordering(tokenizer_tokenize(tk, table[i].attr), ordering)])
        prefix == Table([i \in DOMAIN table |->
                  { toks[i][k] : k \in 1..get_prefix_length(Len(toks[i]), m, t, tk) }])
    IN  Table([token \in UNION { prefix[i] : i \in DOMAIN table } |->
                 SelectSeq([i \in DOMAIN table |-> i], LAMBDA i : token \in prefix[i])])

\* PrefixFilter.find_candidates(): the set of rows sharing a prefix token
prefix_find_candidates(r_ordered_tokens, index, m, t, tk) ==
    LET r_prefix_length == get_prefix_length(Len(r_ordered_tokens), m, t, tk)
    IN  UNION { IF r_ordered_tokens[k] \in DOMAIN index
                THEN Range(index[r_ordered_tokens[k]]) ELSE {}
                : k \in 1..r_prefix_length }

\* the elements of a set of integers, ascending
SetToSeq(S) ==
    [i \in 1..Cardinality(S) |-> CHOOSE x \in S : Cardinality({ y \in S : y < x }) = i - 1]

----------------------------------------------------------------------------
(* _edit_distance_join_split (join/edit_distance_join.py) *)

length_filter_strict(l_len, r_len, t) == r_len - t < l_len /\ l_len <= r_len + t

\* the size filter on raw string lengths
length_filter(l_len, r_len, t) == r_len - t <= l_len /\ l_len <= r_len + t

edit_distance_probe(r_row, L, lens, index, ordering, tk, t, op) ==
    LET r_string == r_row.attr
        r_len    == Len(r_string)
        r_ordered_tokens == order_using_token_ordering(tokenizer_tokenize(tk, r_string), ordering)
        candidates == SetToSeq(prefix_find_candidates(r_ordered_tokens, index,
                                                      "EDIT_DISTANCE", t, tk))
        verified == SelectSeq(candidates, LAMBDA cand : length_filter(lens[cand], r_len, t))
        edit_dist(cand) == edit_distance(L[cand].attr, r_string)
        emitted == SelectSeq(verified, LAMBDA cand : comp_fn(op, edit_dist(cand), t))
    IN  [cands |-> candidates,
         calls |-> [i \in DOMAIN verified |->
                      [l_id |-> L[verified[i]].key, r_id |-> r_row.key,
                       l_arg |-> L[verified[i]].attr, r_arg |-> r_string]],
         rows  |-> [i \in DOMAIN emitted |->
                      [l_id |-> L[emitted[i]].key, r_id |-> r_row.key,
                       score |-> edit_dist(emitted[i])]]]

\* the rows one call of _edit_distance_join_split(ltable, rtable, ...) returns
edit_distance_join_split(L, R, tk, t, op) ==
    LET ordering == gen_token_ordering_for_tables(<<L, R>>, tk, "EDIT_DISTANCE")
        lens     == [i \in DOMAIN L |-> Len(L[i].attr)]
        index    == PrefixIndex_build(L, tk, "EDIT_DISTANCE", t, ordering)
    IN  Flatten([j \in DOMAIN R |->
                   edit_distance_probe(R[j], L, lens, index, ordering, tk, t, op).rows])

----------------------------------------------------------------------------
(* _black_box_join_split (join/black_box_join.py) *)

\* the caller's similarity functions explored: neither is symmetric
black_box_sim(f, x, y) ==
    IF f = "containment"
    THEN Cardinality({ i \in DOMAIN x : x[i] \in Range(y) })
    ELSE Max(0, Len(x) - Len(y))

\* the value of a join string handed to the similarity function
join_value(tk, s) == IF tk.kind = "none" THEN s ELSE tokenizer_tokenize(tk, s)

black_box_cache(table, tk) ==
    IF tk.kind = "none" THEN <<>>
    ELSE LET keys == { table[i].key : i \in DOMAIN table }
             rowOf(k) == table[CHOOSE i \in DOMAIN table : table[i].key = k]
         IN  Table([k \in keys |-> tokenizer_tokenize(tk, rowOf(k).attr)])

black_box_score_swapped(f, l_join_value, r_join_value) ==
    black_box_sim(f, r_join_value, l_join_value)

\* sim_score = sim_function(l_join_value, r_join_value)
black_box_score(f, l_join_value, r_join_value) ==
    black_box_sim(f, l_join_value, r_join_value)

black_box_probe(r_row, L, cache, tk, f, t) ==
    LET r_join_value == join_value(tk, r_row.attr)
        l_join_value(i) == IF tk.kind = "none" THEN L[i].attr ELSE cache[L[i].key]
        sim_score(i) == black_box_score(f, l_join_value(i), r_join_value)
        emitted == SelectSeq([i \in DOMAIN L |-> i], LAMBDA i : sim_score(i) >= t)
    IN  [calls |-> [i \in DOMAIN L |->
                      [l_id |-> L[i].key, r_id |-> r_row.key,
                       l_arg |-> l_join_value(i), r_arg |-> r_join_value]],
         rows  |-> [i \in DOMAIN emitted |->
                      [l_id |-> L[emitted[i]].key, r_id |-> r_row.key,
                       score |-> sim_score(emitted[i])]]]

\* the rows one call of _black_box_join_split(ltable, rtable, ...) returns
black_box_join_split(L, R, tk, f, t) ==
    Flatten([j \in DOMAIN R |-> black_box_probe(R[j], L, black_box_cache(L, tk), tk, f, t).rows])

----------------------------------------------------------------------------
(* The drivers (join/jaccard_join.py, join/dice_join.py,
   join/edit_distance_join.py, join/black_box_join.py) *)

\* the dtypes of the join columns after astype(str) of the int64 and float64
\* ones
astype_str(dtypes) ==
    [i \in DOMAIN dtypes |->
       IF dtypes[i] \in {"int64", "float64"} THEN "str" ELSE dtypes[i]]

\* edit_distance_join: int(floor(threshold)) of the caller's threshold <<num, den>>
floor_threshold(t) == t[1] \div t[2]

\* tokenizer.set_return_set(flag)
set_return_set(tk, flag) == [tk EXCEPT !.return_set = flag]

revert_tokenizer_skip(tk, flag) == tk

\* the driver's last step on the tokenizer: set_return_set(False) if the
\* driver had switched it to set mode
revert_tokenizer(tk, flag) == IF flag THEN set_return_set(tk, FALSE) ELSE tk

\* the tokenizer dice_join hands to its workers
dice_join_tokenizer(tk) == IF ~tk.return_set THEN set_return_set(tk, TRUE) ELSE tk

----------------------------------------------------------------------------
(* overlap_join (join/overlap_join.py) and OverlapFilter (filter/overlap_filter.py) *)

\* the number of tokens two token lists have in common, repeated tokens
\* counted as often as both lists repeat them
overlap(x, y) ==
    Cardinality({ i \in DOMAIN x :
                    Cardinality({ j \in 1..i : x[j] = x[i] }) <=
                    Cardinality({ j \in DOMAIN y : y[j] = x[i] }) })

\* the tokenizer overlap_join hands to OverlapFilter
overlap_join_tokenizer(tk) == IF ~tk.return_set THEN set_return_set(tk, TRUE) ELSE tk

\* OverlapFilter.filter_tables(): the rows of the pairs whose overlap
\* satisfies comp_op against the threshold
overlap_filter_tables(L, R, tk, t, op) ==
    LET ov(i, j) == overlap(tokenizer_tokenize(tk, L[i].attr), tokenizer_tokenize(tk, R[j].attr))
    IN  Flatten([j \in DOMAIN R |->
          LET emitted == SelectSeq([i \in DOMAIN L |-> i], LAMBDA i : comp_fn(op, ov(i, j), t))
          IN  [k \in DOMAIN emitted |->
                 [l_id |-> L[emitted[k]].key, r_id |-> R[j].key, score |-> ov(emitted[k], j)]]])

----------------------------------------------------------------------------
(* The output of a driver's worker *)

\* the rows the worker of a driver returns for the tables (ltable, rtable)
worker_output(jt, L, R, tk, t, op, f) ==
    CASE jt = "JACCARD" -> set_sim_join(L, R, tk, "JACCARD", t)
      [] jt = "DICE" -> set_sim_join(L, R, dice_join_tokenizer(tk), "DICE", t)
      [] jt = "EDIT_DISTANCE" -> edit_distance_join_split(L, R, tk, floor_threshold(t), op)
      [] jt = "BLACK_BOX" -> black_box_join_split(L, R, tk, f, t)
      [] jt = "OVERLAP" -> overlap_filter_tables(L, R, overlap_join_tokenizer(tk), t, op)

----------------------------------------------------------------------------
(* Validation in the drivers *)

\* the validations of utils/validation: validate_input_table, validate_attr,
\* validate_tokenizer, validate_threshold, validate_comp_op_for_sim_measure,
\* validate_output_attrs, validate_key_attr
Validations ==
    {"input_table", "attr", "tokenizer", "threshold", "comp_op", "output_attrs", "key_attr"}

\* the validations a driver calls itself, all of them before anything else
DriverValidations(jt) ==
    CASE jt \in {"JACCARD", "DICE", "EDIT_DISTANCE"} -> Validations
      [] jt = "BLACK_BOX" -> Validations \ {"threshold", "comp_op"}
      [] jt = "OVERLAP" -> {"tokenizer"}

----------------------------------------------------------------------------
(* ration_output, consume_into_dataframe, consume_into_csvfile (utils/mur_utils.py) *)

\* the reservoir and the batch yielded, if any, after one more result
ration_output_append(res, result, sz) ==
    LET filled == Append(res, result)
    IN  IF Len(filled) > sz THEN [reservoir |-> <<>>, yielded |-> filled]
        ELSE [reservoir |-> filled, yielded |-> <<>>]

----------------------------------------------------------------------------
(* The inputs explored *)

\* the keys of the rows: unique in each table
LKey(i) == 10 + i
RKey(j) == 20 + j

LTable(strs) == [i \in DOMAIN strs |-> [key |-> LKey(i), attr |-> strs[i]]]
RTable(strs) == [j \in DOMAIN strs |-> [key |-> RKey(j), attr |-> strs[j]]]

IsSorted(s) == \A i \in 1..(Len(s) - 1) : s[i] <= s[i + 1]

\* join strings of the set-similarity tables: the words of a string, up to
\* their order in the string
SetStrings == { s \in SeqsUpTo(1..NumTokens, MaxLen) : IsSorted(s) }
\* join strings of the edit-distance tables
EdStrings  == SeqsUpTo(1..NumChars, MaxStrLen)
\* join strings of the black-box tables
BbStrings  == SeqsUpTo(1..NumChars, MaxLen)

\* the shapes <<rows of ltable, rows of rtable>>
Shapes == { sh \in (1..MaxRows) \X (1..MaxRows) : sh[1] + sh[2] <= MaxRows }

Thresholds == { q \in (1..MaxDen) \X (1..MaxDen) : q[1] <= q[2] /\ GCD(q[1], q[2]) = 1 }

\* the edit-distance thresholds a caller passes: the whole numbers
\* 1..MaxEdThreshold and the halves between and above them, as <<num, den>>
EdThresholds ==
    { q \in (1..(2 * MaxEdThreshold + 1)) \X (1..2) :
        q[1] >= q[2] /\ q[1] <= q[2] * MaxEdThreshold + (q[2] - 1) /\ GCD(q[1], q[2]) = 1 }

WordTokenizers  == [kind : {"word"}, qval : {0}, padding : {FALSE}, return_set : BOOLEAN]
\* QgramTokenizer(qval=2), padded as the library does by default
QgramTokenizers == [kind : {"qgram"}, qval : {2}, padding : {TRUE}, return_set : BOOLEAN]
NoTokenizer     == [kind |-> "none", qval |-> 0, padding |-> FALSE, return_set |-> FALSE]

SimFunctions == {"containment", "length_excess"}

\* no table returned (yet)
NoTable == "none"

NoIndex == [index |-> <<>>, size_map |-> <<>>]

\* filter_pair has not been called
NoPairResult == [called |-> FALSE]

InitWorkerState ==
    /\ pc = "start"
    /\ revert_flag = FALSE
    /\ token_ordering = <<>>
    /\ l_join_attr_dict = <<>>
    /\ position_index = NoIndex
    /\ prefix_index = <<>>
    /\ l_join_attr_list = <<>>
    /\ l_join_tokens_cached = <<>>
    /\ r_idx = 0
    /\ candidate_overlap = EmptyDict
    /\ sim_calls = <<>>
    /\ output_rows = <<>>
    /\ join_attr_dtype = orig_join_attr_type
    /\ returned = NoTable
    /\ reservoir = <<>>
    /\ csv_file = <<>>
    /\ pair_result = NoPairResult
    /\ batches = <<>>
    /\ size_index = SizeIndex_init

\* a call whose arguments pass validation and during which nothing raises,
\* on tables whose join columns hold strings
ValidCall ==
    /\ invalid = "none"
    /\ orig_return_set = tokenizer.return_set
    /\ orig_join_attr_type = <<"object", "object">>
    /\ raises_at = 0
    /\ size = 0
    /\ generator_function = <<>>
    /\ results = <<>>
    /\ filter_measure = "none"

InitTables(strings) ==
    \E sh \in Shapes :
        /\ ltable \in { LTable(ss) : ss \in [1..sh[1] -> strings] }
        /\ rtable \in { RTable(ss) : ss \in [1..sh[2] -> strings] }

\* jaccard_join / dice_join; the options other than the defaults
\* (comp_op '>=', allow_empty True) are explored on one-row tables
InitSetSim ==
    /\ join_type \in {"JACCARD", "DICE"}
    /\ tokenizer \in WordTokenizers
    /\ threshold \in Thresholds
    /\ comp_op \in {">=", ">", "="}
    /\ allow_empty \in BOOLEAN
    /\ sim_function = "none"
    /\ InitTables(SetStrings)
    /\ (comp_op = ">=" /\ allow_empty) \/ (Len(ltable) = 1 /\ Len(rtable) = 1)
    /\ ValidCall
    /\ InitWorkerState

\* edit_distance_join called with the default comp_op
InitEditDistance ==
    /\ join_type = "EDIT_DISTANCE"
    /\ tokenizer \in QgramTokenizers
    /\ threshold \in { t \in EdThresholds : t[2] = 1 }
    /\ comp_op = "<="
    /\ allow_empty = TRUE
    /\ sim_function = "none"
    /\ InitTables(EdStrings)
    /\ ValidCall
    /\ InitWorkerState

InitBlackBox ==
    /\ join_type = "BLACK_BOX"
    /\ tokenizer \in {NoTokenizer} \cup { tk \in QgramTokenizers : ~tk.return_set }
    /\ threshold \in 1..MaxEdThreshold
    /\ comp_op = ">="
    /\ allow_empty = TRUE
    /\ sim_function \in SimFunctions
    /\ InitTables(BbStrings)
    /\ ValidCall
    /\ InitWorkerState

Init == InitSetSim \/ InitEditDistance \/ InitBlackBox

\* join strings with many repeated words
LongStrings == { s \in SeqsUpTo(1..NumTokens, MaxLongLen) : IsSorted(s) }

\* jaccard_join / dice_join over a two-row ltable whose second row is a long
\* string, and a one-row rtable without repeated words
InitLong ==
    /\ join_type \in {"JACCARD", "DICE"}
    /\ tokenizer \in WordTokenizers
    /\ threshold \in Thresholds
    /\ comp_op = ">="
    /\ allow_empty = TRUE
    /\ sim_function = "none"
    /\ \E s1 \in { s \in SetStrings : Len(s) <= 1 }, s2 \in LongStrings :
          ltable = LTable(<<s1, s2>>)
    /\ \E r \in { s \in SeqsUpTo(1..NumTokens, NumTokens) : IsSorted(s) /\ Dedupe(s) = s } :
          rtable = RTable(<<r>>)
    /\ ValidCall
    /\ InitWorkerState

\* the results a generator holds and whether it raises after giving them
Generators ==
    [rows : { [i \in 1..n |-> i] : n \in 0..MaxResults }, raises : BOOLEAN]

\* a call of a join driver whose arguments may fail a validation, or during
\* which the probe of an rtable row may raise; ltable has one row
InitJoinCall ==
    /\ join_type \in {"JACCARD", "DICE", "EDIT_DISTANCE", "OVERLAP", "BLACK_BOX"}
    /\ tokenizer \in CASE join_type \in {"JACCARD", "DICE", "OVERLAP"} -> WordTokenizers
                     [] join_type = "EDIT_DISTANCE" -> QgramTokenizers
                     [] join_type = "BLACK_BOX" -> {NoTokenizer}
    /\ threshold \in CASE join_type \in {"JACCARD", "DICE"} -> Thresholds
                     [] join_type = "EDIT_DISTANCE" -> EdThresholds
                     [] OTHER -> 1..MaxEdThreshold
    /\ comp_op \in CASE join_type = "OVERLAP" -> {">=", ">", "="}
                   [] join_type = "EDIT_DISTANCE" -> {"<=", "<", "="}
                   [] OTHER -> {">="}
    /\ allow_empty = TRUE
    /\ sim_function = IF join_type = "BLACK_BOX" THEN "containment" ELSE "none"
    /\ \E strings \in {IF join_type \in {"JACCARD", "DICE", "OVERLAP"}
                        THEN SetStrings ELSE BbStrings} :
          \E l \in strings, nr \in 1..(MaxRows - 1) :
             /\ ltable = LTable(<<l>>)
             /\ rtable \in { RTable(ss) : ss \in [1..nr -> strings] }
    /\ invalid \in {"none"} \cup
                   (IF join_type = "BLACK_BOX" THEN DriverValidations(join_type) \ {"tokenizer"}
                    ELSE Validations)
    /\ raises_at \in 0..Len(rtable)
    /\ orig_join_attr_type \in {<<"object", "object">>, <<"int64", "object">>}
    /\ invalid # "none" => (raises_at = 0 /\ Len(rtable) = 1)
    /\ orig_join_attr_type[1] = "int64" => Len(rtable) = 1
    /\ join_type = "OVERLAP" => raises_at = 0
    /\ (join_type # "OVERLAP" /\ raises_at = 0) => Len(rtable) = 1
    /\ orig_return_set = tokenizer.return_set
    /\ size = 0
    /\ generator_function = <<>>
    /\ results = <<>>
    /\ filter_measure = "none"
    /\ InitWorkerState

\* a call of consume_into_dataframe or consume_into_csvfile (with a header)
\* on ration_output(generator_function, size)
InitSinkCall ==
    /\ join_type \in {"CONSUME_DATAFRAME", "CONSUME_CSVFILE"}
    /\ generator_function \in Generators
    /\ size \in 0..MaxSize
    /\ ltable = <<>> /\ rtable = <<>>
    /\ tokenizer = NoTokenizer
    /\ threshold = 1
    /\ comp_op = ">="
    /\ allow_empty = TRUE
    /\ sim_function = "none"
    /\ invalid = "none"
    /\ raises_at = 0
    /\ orig_join_attr_type = <<"object", "object">>
    /\ orig_return_set = tokenizer.return_set
    /\ results = generator_function.rows
    /\ filter_measure = "none"
    /\ InitWorkerState

InitCalls == InitJoinCall \/ InitSinkCall

\* strings of words given to a PositionFilter
FilterStrings == { s \in SeqsUpTo(1..NumFilterTokens, MaxFilterLen) : IsSorted(s) }

\* the arguments no driver is given in a call of a filter or an index
NoDriverCall ==
    /\ comp_op = ">="
    /\ allow_empty = TRUE
    /\ sim_function = "none"
    /\ invalid = "none"
    /\ orig_return_set = tokenizer.return_set
    /\ orig_join_attr_type = <<"object", "object">>
    /\ raises_at = 0
    /\ size = 0
    /\ generator_function = <<>>
    /\ results = <<>>

\* a PositionFilter and two strings: filter_pair is called on the strings,
\* filter_tables on the one-row tables holding them
InitPositionFilter ==
    /\ join_type = "POSITION_FILTER"
    /\ filter_measure \in {"JACCARD", "DICE"}
    /\ tokenizer \in WordTokenizers
    /\ threshold \in Thresholds
    /\ \E l \in FilterStrings, r \in FilterStrings :
          /\ ltable = LTable(<<l>>)
          /\ rtable = RTable(<<r>>)
    /\ NoDriverCall
    /\ InitWorkerState

\* a SizeIndex made over a table
InitSizeIndex ==
    /\ join_type = "SIZE_INDEX"
    /\ filter_measure = "none"
    /\ tokenizer \in WordTokenizers
    /\ threshold = 1
    /\ ltable \in { LTable(ss) : ss \in UNION { [1..n -> SetStrings] : n \in 0..MaxRows } }
    /\ rtable = <<>>
    /\ NoDriverCall
    /\ InitWorkerState

InitFilters == InitPositionFilter \/ InitSizeIndex

----------------------------------------------------------------------------
(* The drivers and the steps of their workers *)

inputs == <<join_type, ltable, rtable, threshold, comp_op, allow_empty, sim_function,
            invalid, orig_return_set, orig_join_attr_type, raises_at, size>>
sink   == <<generator_function, reservoir, csv_file>>
built  == <<token_ordering, l_join_attr_dict, position_index, prefix_index,
            l_join_attr_list, l_join_tokens_cached>>
probed == <<r_idx, candidate_overlap, sim_calls, output_rows>>
filters == <<filter_measure, pair_result, results, size_index>>

\* jaccard_join: validation passed; the tokenizer is handed on as it is
jaccard_join_call ==
    /\ pc = "start" /\ join_type = "JACCARD" /\ invalid = "none"
    /\ pc' = "ordering"
    /\ UNCHANGED <<inputs, tokenizer, revert_flag, built, probed>>
    /\ UNCHANGED <<join_attr_dtype, returned, sink>>
    /\ UNCHANGED <<filters, batches>>

\* dice_join: validation passed; the tokenizer is switched to set mode
dice_join_call ==
    /\ pc = "start" /\ join_type = "DICE" /\ invalid = "none"
    /\ revert_flag' = ~tokenizer.return_set
    /\ tokenizer' = dice_join_tokenizer(tokenizer)
    /\ join_attr_dtype' = astype_str(join_attr_dtype)
    /\ pc' = "ordering"
    /\ UNCHANGED <<inputs, built, probed, returned, sink>>
    /\ UNCHANGED <<filters, batches>>

\* edit_distance_join: validation passed
edit_distance_join_call ==
    /\ pc = "start" /\ join_type = "EDIT_DISTANCE" /\ invalid = "none"
    /\ join_attr_dtype' = astype_str(join_attr_dtype)
    /\ pc' = "ordering"
    /\ UNCHANGED <<inputs, tokenizer, revert_flag, built, probed, returned, sink>>
    /\ UNCHANGED <<filters, batches>>

\* black_box_join: validation passed; the worker caches the ltable tokens
black_box_join_call ==
    /\ pc = "start" /\ join_type = "BLACK_BOX" /\ invalid = "none"
    /\ UNCHANGED <<join_attr_dtype, returned, sink>>
    /\ l_join_tokens_cached' = black_box_cache(ltable, tokenizer)
    /\ r_idx' = 1
    /\ pc' = "probe"
    /\ UNCHANGED <<inputs, tokenizer, revert_flag, token_ordering, l_join_attr_dict,
                   position_index, prefix_index, l_join_attr_list,
                   candidate_overlap, sim_calls, output_rows>>
    /\ UNCHANGED <<filters, batches>>

sim_measure_type == join_type

append_output_rows_front(rows, new_rows) == new_rows \o rows

\* output_rows after the appends of one pass of the loop over rtable
append_output_rows(rows, new_rows) == rows \o new_rows

\* gen_token_ordering_for_tables over both tables
gen_token_ordering ==
    /\ pc = "ordering"
    /\ token_ordering' = gen_token_ordering_for_tables(<<ltable, rtable>>, tokenizer,
                                                       sim_measure_type)
    /\ pc' = "build"
    /\ UNCHANGED <<join_attr_dtype, returned, sink>>
    /\ UNCHANGED <<inputs, tokenizer, revert_flag, l_join_attr_dict, position_index,
                   prefix_index, l_join_attr_list, l_join_tokens_cached, probed>>
    /\ UNCHANGED <<filters, batches>>

\* set_sim_join: cache the ordered ltable tokens and build the position index
set_sim_build ==
    /\ pc = "build" /\ join_type \in {"JACCARD", "DICE"}
    /\ l_join_attr_dict' = cache_l_join_attr(ltable, tokenizer, sim_measure_type,
                                             token_ordering)
    /\ position_index' = PositionIndex_build(ltable, tokenizer, sim_measure_type,
                                             threshold, token_ordering)
    /\ r_idx' = 1
    /\ pc' = "probe"
    /\ UNCHANGED <<join_attr_dtype, returned, sink>>
    /\ UNCHANGED <<inputs, tokenizer, revert_flag, token_ordering, prefix_index,
                   l_join_attr_list, l_join_tokens_cached, candidate_overlap,
                   sim_calls, output_rows>>
    /\ UNCHANGED <<filters, batches>>

\* _edit_distance_join_split: cache the ltable string lengths and build the
\* prefix index
edit_distance_build ==
    /\ pc = "build" /\ join_type = "EDIT_DISTANCE"
    /\ l_join_attr_list' = [i \in DOMAIN ltable |-> Len(ltable[i].attr)]
    /\ prefix_index' = PrefixIndex_build(ltable, tokenizer, sim_measure_type,
                                         floor_threshold(threshold), token_ordering)
    /\ r_idx' = 1
    /\ pc' = "probe"
    /\ UNCHANGED <<join_attr_dtype, returned, sink>>
    /\ UNCHANGED <<inputs, tokenizer, revert_flag, token_ordering, l_join_attr_dict,
                   position_index, l_join_tokens_cached, candidate_overlap,
                   sim_calls, output_rows>>
    /\ UNCHANGED <<filters, batches>>

\* set_sim_join: one pass of the loop over rtable
set_sim_probe_row ==
    /\ pc = "probe" /\ join_type \in {"JACCARD", "DICE"}
    /\ r_idx <= Len(rtable) /\ r_idx # raises_at
    /\ UNCHANGED <<join_attr_dtype, returned, sink>>
    /\ LET res == set_sim_probe(rtable[r_idx], l_join_attr_dict, position_index,
                                token_ordering, tokenizer, sim_measure_type, threshold)
       IN  /\ candidate_overlap' = res.cands
           /\ sim_calls' = sim_calls \o res.calls
           /\ output_rows' = append_output_rows(output_rows, res.rows)
           /\ position_index' = IndexAfterProbes(position_index, res.probed)
    /\ r_idx' = r_idx + 1
    /\ UNCHANGED <<pc, inputs, tokenizer, revert_flag, token_ordering, l_join_attr_dict,
                   prefix_index, l_join_attr_list, l_join_tokens_cached>>
    /\ UNCHANGED <<filters, batches>>

\* _edit_distance_join_split: one pass of the loop over rtable
edit_distance_probe_row ==
    /\ pc = "probe" /\ join_type = "EDIT_DISTANCE"
    /\ r_idx <= Len(rtable) /\ r_idx # raises_at
    /\ UNCHANGED <<join_attr_dtype, returned, sink>>
    /\ LET res == edit_distance_probe(rtable[r_idx], ltable, l_join_attr_list,
                                      prefix_index, token_ordering, tokenizer,
                                      floor_threshold(threshold), comp_op)
       IN  /\ sim_calls' = sim_calls \o res.calls
           /\ output_rows' = append_output_rows(output_rows, res.rows)
    /\ r_idx' = r_idx + 1
    /\ UNCHANGED <<pc, inputs, tokenizer, revert_flag, built, candidate_overlap>>
    /\ UNCHANGED <<filters, batches>>

\* _black_box_join_split: one pass of the loop over rtable
black_box_probe_row ==
    /\ pc = "probe" /\ join_type = "BLACK_BOX"
    /\ r_idx <= Len(rtable) /\ r_idx # raises_at
    /\ UNCHANGED <<join_attr_dtype, returned, sink>>
    /\ LET res == black_box_probe(rtable[r_idx], ltable, l_join_tokens_cached,
                                  tokenizer, sim_function, threshold)
       IN  /\ sim_calls' = sim_calls \o res.calls
           /\ output_rows' = append_output_rows(output_rows, res.rows)
    /\ r_idx' = r_idx + 1
    /\ UNCHANGED <<pc, inputs, tokenizer, revert_flag, built, candidate_overlap>>
    /\ UNCHANGED <<filters, batches>>

\* the worker returns its table and the driver returns it to the caller;
\* dice_join first sets the tokenizer back
join_return ==
    /\ pc = "probe"
    /\ r_idx > Len(rtable)
    /\ join_attr_dtype' = orig_join_attr_type
    /\ tokenizer' = revert_tokenizer(tokenizer, revert_flag)
    /\ returned' = output_rows
    /\ pc' = "done"
    /\ UNCHANGED <<inputs, revert_flag, built, probed, sink>>
    /\ UNCHANGED <<filters, batches>>

\* a validation the driver calls raises: nothing has been done yet
validation_error ==
    /\ pc = "start"
    /\ join_type \in {"JACCARD", "DICE", "EDIT_DISTANCE", "OVERLAP", "BLACK_BOX"}
    /\ invalid \in DriverValidations(join_type)
    /\ pc' = "raised"
    /\ UNCHANGED <<inputs, tokenizer, revert_flag, built, probed, join_attr_dtype,
                   returned, sink>>
    /\ UNCHANGED <<filters, batches>>

\* overlap_join: validate_tokenizer passed; the tokenizer is switched to set
\* mode and OverlapFilter is about to be made
overlap_join_call ==
    /\ pc = "start" /\ join_type = "OVERLAP"
    /\ invalid \notin DriverValidations(join_type)
    /\ revert_flag' = ~tokenizer.return_set
    /\ tokenizer' = overlap_join_tokenizer(tokenizer)
    /\ pc' = "overlap_filter"
    /\ UNCHANGED <<inputs, built, probed, join_attr_dtype, returned, sink>>
    /\ UNCHANGED <<filters, batches>>

\* OverlapFilter(...) or filter_tables(...) raises for an argument the driver
\* did not validate
overlap_filter_error ==
    /\ pc = "overlap_filter"
    /\ invalid # "none"
    /\ pc' = "raised"
    /\ UNCHANGED <<inputs, tokenizer, revert_flag, built, probed, join_attr_dtype,
                   returned, sink>>
    /\ UNCHANGED <<filters, batches>>

\* overlap_filter.filter_tables(...) returns its table
overlap_filter_tables_call ==
    /\ pc = "overlap_filter"
    /\ invalid = "none"
    /\ output_rows' = overlap_filter_tables(ltable, rtable, tokenizer, threshold, comp_op)
    /\ pc' = "overlap_return"
    /\ UNCHANGED <<inputs, tokenizer, revert_flag, built, r_idx, candidate_overlap,
                   sim_calls, join_attr_dtype, returned, sink>>
    /\ UNCHANGED <<filters, batches>>

\* overlap_join sets the tokenizer back and returns the table
overlap_join_return ==
    /\ pc = "overlap_return"
    /\ tokenizer' = revert_tokenizer(tokenizer, revert_flag)
    /\ returned' = output_rows
    /\ pc' = "done"
    /\ UNCHANGED <<inputs, revert_flag, built, probed, join_attr_dtype, sink>>
    /\ UNCHANGED <<filters, batches>>

\* tokenization or the similarity function raises in the pass of the loop
\* over rtable for row raises_at; the exception leaves the worker and the
\* driver
probe_raises ==
    /\ pc = "probe"
    /\ r_idx <= Len(rtable) /\ r_idx = raises_at
    /\ pc' = "raised"
    /\ UNCHANGED <<inputs, tokenizer, revert_flag, built, probed, join_attr_dtype,
                   returned, sink>>
    /\ UNCHANGED <<filters, batches>>

\* consume_into_dataframe / consume_into_csvfile is called; with a header,
\* consume_into_csvfile first writes the header line to a new file
consume_call ==
    /\ pc = "start" /\ join_type \in {"CONSUME_DATAFRAME", "CONSUME_CSVFILE"}
    /\ csv_file' = <<>>
    /\ pc' = "consume"
    /\ UNCHANGED <<inputs, tokenizer, revert_flag, built, probed, join_attr_dtype,
                   returned, generator_function, reservoir>>
    /\ UNCHANGED <<filters, batches>>

consume_rows_overwrite(held, rows) == rows

\* the rows a sink holds after the body of its loop ran for a batch
consume_rows(held, rows) == held \o rows

\* ration_output takes the next result from the generator; when the
\* reservoir holds more than size results it yields them and the sink's loop
\* body runs
ration_output_next ==
    /\ pc = "consume"
    /\ generator_function.rows # <<>>
    /\ LET r == ration_output_append(reservoir, Head(generator_function.rows), size)
       IN  /\ reservoir' = r.reservoir
           /\ batches' = IF r.yielded = <<>> THEN batches ELSE Append(batches, r.yielded)
           /\ output_rows' = IF join_type = "CONSUME_DATAFRAME"
                             THEN consume_rows(output_rows, r.yielded) ELSE output_rows
           /\ csv_file' = IF join_type = "CONSUME_CSVFILE"
                          THEN consume_rows(csv_file, r.yielded) ELSE csv_file
    /\ generator_function' = [generator_function EXCEPT !.rows = Tail(@)]
    /\ UNCHANGED <<pc, inputs, tokenizer, revert_flag, built, r_idx, candidate_overlap,
                   sim_calls, join_attr_dtype, returned>>
    /\ UNCHANGED filters

\* the generator raises instead of giving a result: the exception leaves
\* ration_output and the sink
generator_raises ==
    /\ pc = "consume"
    /\ generator_function.rows = <<>> /\ generator_function.raises
    /\ pc' = "raised"
    /\ UNCHANGED <<inputs, tokenizer, revert_flag, built, probed, join_attr_dtype,
                   returned, sink>>
    /\ UNCHANGED <<filters, batches>>

\* the generator is exhausted: ration_output yields what the reservoir holds,
\* the sink's loop body runs for it, and the sink returns
consume_return ==
    /\ pc = "consume"
    /\ generator_function.rows = <<>> /\ ~generator_function.raises
    /\ reservoir' = <<>>
    /\ batches' = IF reservoir = <<>> THEN batches ELSE Append(batches, reservoir)
    /\ output_rows' = IF join_type = "CONSUME_DATAFRAME"
                      THEN consume_rows(output_rows, reservoir) ELSE output_rows
    /\ csv_file' = IF join_type = "CONSUME_CSVFILE"
                   THEN consume_rows(csv_file, reservoir) ELSE csv_file
    /\ returned' = IF join_type = "CONSUME_DATAFRAME" THEN output_rows' ELSE <<>>
    /\ pc' = "done"
    /\ UNCHANGED <<inputs, tokenizer, revert_flag, built, r_idx, candidate_overlap,
                   sim_calls, join_attr_dtype, generator_function>>
    /\ UNCHANGED filters

\* PositionFilter.filter_pair(lstring, rstring)
filter_pair_call ==
    /\ pc = "start" /\ join_type = "POSITION_FILTER"
    /\ pair_result' = filter_pair(ltable[1].attr, rtable[1].attr, tokenizer,
                                  filter_measure, threshold)
    /\ pc' = "pair_done"
    /\ UNCHANGED <<inputs, tokenizer, revert_flag, built, probed, join_attr_dtype,
                   returned, sink, filter_measure, results, size_index, batches>>

\* PositionFilter.filter_tables(ltable, rtable, ...)
filter_tables_call ==
    /\ pc = "pair_done"
    /\ output_rows' = filter_tables(ltable, rtable, tokenizer, filter_measure, threshold)
    /\ returned' = output_rows'
    /\ pc' = "done"
    /\ UNCHANGED <<inputs, tokenizer, revert_flag, built, r_idx, candidate_overlap,
                   sim_calls, join_attr_dtype, sink, filters, batches>>

\* SizeIndex.build()
size_index_build ==
    /\ pc = "start" /\ join_type = "SIZE_INDEX"
    /\ size_index' = SizeIndex_build(ltable, tokenizer, Len(ltable))
    /\ pc' = "done"
    /\ UNCHANGED <<inputs, tokenizer, revert_flag, built, probed, join_attr_dtype,
                   returned, sink, filter_measure, pair_result, results, batches>>

NextSetSim ==
    \/ jaccard_join_call
    \/ dice_join_call
    \/ gen_token_ordering
    \/ set_sim_build
    \/ set_sim_probe_row
    \/ join_return

Next ==
    \/ jaccard_join_call
    \/ dice_join_call
    \/ edit_distance_join_call
    \/ black_box_join_call
    \/ gen_token_ordering
    \/ set_sim_build
    \/ edit_distance_build
    \/ set_sim_probe_row
    \/ edit_distance_probe_row
    \/ black_box_probe_row
    \/ join_return

Spec == Init /\ [][Next]_vars

SpecLong == InitLong /\ [][NextSetSim]_vars

NextCalls ==
    \/ validation_error
    \/ jaccard_join_call
    \/ dice_join_call
    \/ edit_distance_join_call
    \/ black_box_join_call
    \/ overlap_join_call
    \/ overlap_filter_error
    \/ overlap_filter_tables_call
    \/ overlap_join_return
    \/ gen_token_ordering
    \/ set_sim_build
    \/ edit_distance_build
    \/ set_sim_probe_row
    \/ edit_distance_probe_row
    \/ black_box_probe_row
    \/ probe_raises
    \/ join_return
    \/ consume_call
    \/ ration_output_next
    \/ generator_raises
    \/ consume_return

SpecCalls == InitCalls /\ [][NextCalls]_vars

NextFilters ==
    \/ filter_pair_call
    \/ filter_tables_call
    \/ size_index_build

SpecFilters == InitFilters /\ [][NextFilters]_vars

----------------------------------------------------------------------------
(* What the claims speak about *)

LRow(k) == ltable[CHOOSE i \in DOMAIN ltable : ltable[i].key = k]
RRow(k) == rtable[CHOOSE j \in DOMAIN rtable : rtable[j].key = k]
LKeys == { ltable[i].key : i \in DOMAIN ltable }
RKeys == { rtable[j].key : j \in DOMAIN rtable }

IsSetSimJoin == join_type \in {"JACCARD", "DICE"}

\* the words of a join string as a set, and the q-grams of one as a bag
WordSet(s) == Range(s)
QgramBag(s) == QgramTokens(s, tokenizer.qval, tokenizer.padding)

\* the similarity of two join strings, from the strings alone
StringSim(m, ls, rs) ==
    LET X == WordSet(ls)
        Y == WordSet(rs)
    IN  IF X = {} /\ Y = {} THEN <<1, 1>>
        ELSE IF m = "JACCARD" THEN <<Cardinality(X \cap Y), Cardinality(X \cup Y)>>
        ELSE <<2 * Cardinality(X \cap Y), Cardinality(X) + Cardinality(Y)>>

\* the values of two join strings as black_box_join hands them on
BlackBoxValue(s) == IF tokenizer.kind = "none" THEN s ELSE QgramBag(s)

\* the join condition of the running join on the strings of two rows
JoinCondition(ls, rs) ==
    CASE join_type \in {"JACCARD", "DICE"} -> RatGe(StringSim(join_type, ls, rs), threshold)
      [] join_type = "EDIT_DISTANCE" -> RatGe(threshold, <<edit_distance(ls, rs), 1>>)
      [] join_type = "BLACK_BOX" ->
             black_box_sim(sim_function, BlackBoxValue(ls), BlackBoxValue(rs)) >= threshold

PairsOf(rows) == { <<rows[i].l_id, rows[i].r_id>> : i \in DOMAIN rows }
OutputPairs == PairsOf(output_rows)

----------------------------------------------------------------------------
\* C1 (soundness): with the default comparison operator, every row emitted by
\* a join worker is a pair of a row of ltable and a row of rtable whose
\* similarity (or edit distance), recomputed from the two join strings alone,
\* satisfies the join condition against the threshold.
C1_Soundness ==
    comp_op \in {">=", "<="} =>
        \A i \in DOMAIN output_rows :
            /\ output_rows[i].l_id \in LKeys
            /\ output_rows[i].r_id \in RKeys
            /\ JoinCondition(LRow(output_rows[i].l_id).attr, RRow(output_rows[i].r_id).attr)

\* a finished set-similarity join that emitted one pair of the cross product
\* and not another
C1_Witness ==
    /\ pc = "done" /\ join_type = "JACCARD" /\ comp_op = ">="
    /\ output_rows # <<>>
    /\ Len(ltable) * Len(rtable) > Len(output_rows)

\* C3 (no duplicate output): no (l_key, r_key) pair occurs in more than one
\* output row of a worker.
C3_NoDuplicates ==
    \A i, j \in DOMAIN output_rows :
        i # j => <<output_rows[i].l_id, output_rows[i].r_id>> #
                 <<output_rows[j].l_id, output_rows[j].r_id>>

\* a pair was emitted whose records share two prefix tokens
C3_Witness ==
    /\ pc = "done" /\ IsSetSimJoin
    /\ \E cand \in Range(candidate_overlap.keys) :
          /\ candidate_overlap.val[cand] >= 2
          /\ <<cand, rtable[Len(rtable)].key>> \in OutputPairs

\* the run of the state machine returns what the worker operator gives
RunIsWorkerOutput ==
    pc = "done" =>
        output_rows = worker_output(join_type, ltable, rtable, tokenizer, threshold,
                                    comp_op, sim_function)

\* C2 (completeness of the set-similarity join): with comp_op '>=', every pair
\* of L x R whose token sets are both non-empty and whose similarity is >= the
\* threshold is emitted by set_sim_join.
C2_Completeness ==
    (pc = "done" /\ IsSetSimJoin /\ comp_op = ">=") =>
        \A l \in LKeys, r \in RKeys :
            (/\ WordSet(LRow(l).attr) # {}
             /\ WordSet(RRow(r).attr) # {}
             /\ RatGe(StringSim(join_type, LRow(l).attr, RRow(r).attr), threshold))
            => <<l, r>> \in OutputPairs

\* the same for the joins whose index is built from token sets: dice_join, and
\* jaccard_join with a tokenizer that returns sets
C2_CompletenessSetMode ==
    (pc = "done" /\ IsSetSimJoin /\ comp_op = ">="
       /\ (join_type = "DICE" \/ tokenizer.return_set)) =>
        \A l \in LKeys, r \in RKeys :
            (/\ WordSet(LRow(l).attr) # {}
             /\ WordSet(RRow(r).attr) # {}
             /\ RatGe(StringSim(join_type, LRow(l).attr, RRow(r).attr), threshold))
            => <<l, r>> \in OutputPairs

\* the comparison of a score with the threshold under a comparison operator
RatCompare(op, q1, q2) ==
    CASE op = ">=" -> RatGe(q1, q2)
      [] op = ">"  -> RatGt(q1, q2)
      [] op = "="  -> RatEq(q1, q2)

\* C4 (comp_op decides emission): a verified candidate of jaccard_join or
\* dice_join is emitted iff comp_op(similarity, threshold) holds for the
\* comp_op supplied.
C4_CompOpDecides ==
    (pc = "done" /\ IsSetSimJoin) =>
        \A i \in DOMAIN sim_calls :
            <<sim_calls[i].l_id, sim_calls[i].r_id>> \in OutputPairs
            <=> RatCompare(comp_op,
                           get_sim_function(join_type, sim_calls[i].l_arg, sim_calls[i].r_arg),
                           threshold)

\* C5 (empty-record policy): with allow_empty true every pair whose join
\* strings both yield an empty token set is emitted with score 1; with
\* allow_empty false no such pair is emitted.
C5_EmptyPolicy ==
    (pc = "done" /\ IsSetSimJoin) =>
        \A l \in LKeys, r \in RKeys :
            (WordSet(LRow(l).attr) = {} /\ WordSet(RRow(r).attr) = {}) =>
                IF allow_empty
                THEN \E i \in DOMAIN output_rows :
                        output_rows[i] = [l_id |-> l, r_id |-> r, score |-> <<1, 1>>]
                ELSE <<l, r>> \notin OutputPairs

\* C6 (tokenizer-mode neutrality): the rows and scores of jaccard_join and
\* dice_join are the same whether the tokenizer's return_set flag is
\* initially True or initially False.
C6_TokenizerModeNeutral ==
    (pc = "done" /\ IsSetSimJoin) =>
        Range(output_rows) =
        Range(worker_output(join_type, ltable, rtable,
                            set_return_set(tokenizer, ~tokenizer.return_set),
                            threshold, comp_op, sim_function))

\* the rows of a table at the positions S, in table order
Shard(table, S) ==
    LET idx == SelectSeq([i \in DOMAIN table |-> i], LAMBDA i : i \in S)
    IN  [k \in DOMAIN idx |-> table[idx[k]]]

\* C7 (shard-union equality): for every split of rtable into two disjoint
\* shards, the pairs of the worker on (L, shard 1) and on (L, shard 2) together
\* are the pairs of the worker on (L, R).
C7_ShardUnion ==
    pc = "done" =>
        \A S \in SUBSET (DOMAIN rtable) :
            LET tk == tokenizer
                out(T) == PairsOf(worker_output(join_type, ltable, Shard(rtable, T), tk,
                                                threshold, comp_op, sim_function))
            IN  out(S) \cup out(DOMAIN rtable \ S) = OutputPairs

\* C10 (threshold monotonicity): the pairs jaccard_join or dice_join output at
\* a larger threshold are among the pairs output at the threshold of the run.
C10_ThresholdMonotone ==
    (pc = "done" /\ IsSetSimJoin) =>
        \A t2 \in Thresholds :
            RatGt(t2, threshold) =>
                PairsOf(worker_output(join_type, ltable, rtable, tokenizer, t2,
                                      comp_op, sim_function)) \subseteq OutputPairs

\* the same for the workers whose index is built from the tokens the probe
\* uses: all but jaccard_join with a tokenizer that returns bags
C7_ShardUnionSetMode ==
    (pc = "done" /\ ~(join_type = "JACCARD" /\ ~tokenizer.return_set)) =>
        \A S \in SUBSET (DOMAIN rtable) :
            LET tk == tokenizer
                out(T) == PairsOf(worker_output(join_type, ltable, Shard(rtable, T), tk,
                                                threshold, comp_op, sim_function))
            IN  out(S) \cup out(DOMAIN rtable \ S) = OutputPairs

\* C8 (black_box_join is exact): every pair of the cross product is evaluated
\* once, with the value of the left string as first argument and the token
\* lists as values when a tokenizer is given; the pairs emitted are exactly
\* those whose score is >= the threshold.
C8_BlackBoxExact ==
    (pc = "done" /\ join_type = "BLACK_BOX") =>
        /\ Len(sim_calls) = Len(ltable) * Len(rtable)
        /\ \A l \in LKeys, r \in RKeys :
              \E i \in DOMAIN sim_calls :
                 sim_calls[i] = [l_id |-> l, r_id |-> r,
                                 l_arg |-> BlackBoxValue(LRow(l).attr),
                                 r_arg |-> BlackBoxValue(RRow(r).attr)]
        /\ OutputPairs = { p \in LKeys \X RKeys :
                             JoinCondition(LRow(p[1]).attr, RRow(p[2]).attr) }
        /\ Len(output_rows) = Cardinality(OutputPairs)

\* a black box join over q-gram lists that emitted one pair and not another
C8_Witness ==
    /\ pc = "done" /\ join_type = "BLACK_BOX" /\ tokenizer.kind = "qgram"
    /\ output_rows # <<>>
    /\ Len(ltable) * Len(rtable) > Len(output_rows)
    /\ \E i \in DOMAIN sim_calls : sim_calls[i].l_arg # sim_calls[i].r_arg

SharesQgram(ls, rs) == Range(QgramBag(ls)) \cap Range(QgramBag(rs)) # {}

\* C9 (edit-distance join, complete up to the q-gram approximation): with
\* comp_op '<=', every pair within the threshold whose q-gram bags share a
\* q-gram is emitted, and the length filter removes no pair within the
\* threshold.
C9_EditDistanceComplete ==
    (pc = "done" /\ join_type = "EDIT_DISTANCE" /\ comp_op = "<=") =>
        \A l \in LKeys, r \in RKeys :
            RatGe(threshold, <<edit_distance(LRow(l).attr, RRow(r).attr), 1>>) =>
                /\ length_filter(Len(LRow(l).attr), Len(RRow(r).attr),
                                 floor_threshold(threshold))
                /\ SharesQgram(LRow(l).attr, RRow(r).attr) => <<l, r>> \in OutputPairs

\* an edit-distance join at threshold 1 that emitted a pair of different
\* strings, one of which has more q-grams than its prefix holds, and left out
\* another pair
C9_Witness ==
    /\ pc = "done" /\ join_type = "EDIT_DISTANCE" /\ comp_op = "<=" /\ threshold = <<1, 1>>
    /\ \E p \in OutputPairs :
          /\ LRow(p[1]).attr # RRow(p[2]).attr
          /\ Len(LRow(p[1]).attr) = MaxStrLen
    /\ (LKeys \X RKeys) \ OutputPairs # {}

\* the same for the joins whose index is built from token sets
C10_ThresholdMonotoneSetMode ==
    (pc = "done" /\ IsSetSimJoin /\ (join_type = "DICE" \/ tokenizer.return_set)) =>
        \A t2 \in Thresholds :
            RatGt(t2, threshold) =>
                PairsOf(worker_output(join_type, ltable, rtable, tokenizer, t2,
                                      comp_op, sim_function)) \subseteq OutputPairs

----------------------------------------------------------------------------
\* the ordered token list T and the prefix length p that PositionIndex.build()
\* computes for the ltable row of key k, while the worker runs
IndexedTokens(k) == index_attr_tokens(LRow(k), tokenizer, token_ordering)
IndexedPrefixLength(k) ==
    get_prefix_length(Len(IndexedTokens(k)), sim_measure_type, threshold, tokenizer)

\* the postings the index should hold for a token: (key, k) for every row and
\* every 0-based position k < p of the row's full ordered list holding it
ExpectedPostings(token) ==
    UNION { { <<k, pos>> : pos \in { i \in 0..(IndexedPrefixLength(k) - 1) :
                                        IndexedTokens(k)[i + 1] = token } }
            : k \in LKeys }

\* C15 (position-index content): after PositionIndex.build() over ltable, the
\* pair (key(r), k) is in the posting list of token T[k] for every row r and
\* every position k below r's prefix length, k being the 0-based position in
\* the full ordered list; the index holds no other posting.
C15_IndexContent ==
    (pc = "probe" /\ IsSetSimJoin) =>
        /\ \A k \in LKeys : \A pos \in 0..(IndexedPrefixLength(k) - 1) :
              /\ IndexedTokens(k)[pos + 1] \in DOMAIN position_index.index
              /\ <<k, pos>> \in Range(position_index.index[IndexedTokens(k)[pos + 1]])
        /\ \A token \in DOMAIN position_index.index :
              /\ Range(position_index.index[token]) = ExpectedPostings(token)
              /\ Len(position_index.index[token]) = Cardinality(ExpectedPostings(token))

\* an index over a row whose prefix holds two tokens and leaves out a third
C15_Witness ==
    /\ pc = "probe" /\ IsSetSimJoin
    /\ \E k \in LKeys :
          /\ IndexedPrefixLength(k) >= 2
          /\ IndexedPrefixLength(k) < Len(IndexedTokens(k))

\* C16 (size-map consistency): for every row r of ltable, get_size(key(r)) is
\* the length of the ordered token list the join caches for r and hands to
\* the verifier.
C16_SizeMapConsistent ==
    (pc = "probe" /\ IsSetSimJoin) =>
        \A k \in LKeys : get_size(position_index, k) = Len(l_join_attr_dict[k])

----------------------------------------------------------------------------
\* the probe that filled candidate_overlap: the ordered tokens of the rtable
\* row probed last, the postings its sweep visited, and the candidate map
\* after the first n of them
ProbeDone == pc = "probe" /\ IsSetSimJoin /\ r_idx > 1
LastProbeTokens ==
    order_using_token_ordering(tokenize(rtable[r_idx - 1].attr, tokenizer, sim_measure_type),
                               token_ordering)
LastProbePostings ==
    ProbedPostings(LastProbeTokens,
                   get_prefix_length(Len(LastProbeTokens), sim_measure_type, threshold,
                                     tokenizer),
                   position_index)
OverlapAfter(n) ==
    SweepPostings(SubSeq(LastProbePostings, 1, n), Len(LastProbeTokens),
                  sim_measure_type, threshold, tokenizer, position_index)

\* whether the token count of a candidate is within the size bounds of the probe
SizeInBounds(cand) ==
    /\ get_size_lower_bound(Len(LastProbeTokens), sim_measure_type, threshold)
         <= get_size(position_index, cand)
    /\ get_size(position_index, cand)
         <= get_size_upper_bound(Len(LastProbeTokens), sim_measure_type, threshold)

\* whether the n-th posting set its candidate to 0 because
\* current_overlap + overlap_upper_bound < overlap_threshold
RejectedAt(n) ==
    LET posting == LastProbePostings[n]
        cand == posting[2]
        cand_num_tokens == get_size(position_index, cand)
        overlap_upper_bound == 1 + Min(Len(LastProbeTokens) - posting[1] - 1,
                                       cand_num_tokens - posting[3] - 1)
    IN  /\ SizeInBounds(cand)
        /\ DictGet(OverlapAfter(n - 1), cand, 0) + overlap_upper_bound <
             get_overlap_threshold(cand_num_tokens, Len(LastProbeTokens),
                                   sim_measure_type, threshold, tokenizer)

\* C18 (permanent rejection): once a posting set a candidate's entry to 0, no
\* later posting of the same probe raises it above 0, and the candidate is
\* not among the survivors.
C18_PermanentRejection ==
    ProbeDone =>
        \A n \in DOMAIN LastProbePostings :
            RejectedAt(n) =>
                /\ \A later \in n..Len(LastProbePostings) :
                      DictGet(OverlapAfter(later), LastProbePostings[n][2], 0) = 0
                /\ candidate_overlap.val[LastProbePostings[n][2]] = 0

\* a candidate was set to 0 and a later posting of the probe named it again
C18_Witness ==
    /\ ProbeDone
    /\ \E n \in DOMAIN LastProbePostings :
          /\ RejectedAt(n)
          /\ \E later \in (n + 1)..Len(LastProbePostings) :
                LastProbePostings[later][2] = LastProbePostings[n][2]

\* C19 (size-bound pruning): a posting of an ltable record whose token count
\* is outside [size_lower_bound, size_upper_bound] of the probe record leaves
\* candidate_overlap as it is, so that no such record has an entry or is
\* passed to the similarity function for the probe record.
C19_SizeBoundPruning ==
    ProbeDone =>
        /\ \A n \in DOMAIN LastProbePostings :
              ~SizeInBounds(LastProbePostings[n][2]) => OverlapAfter(n) = OverlapAfter(n - 1)
        /\ \A cand \in Range(candidate_overlap.keys) : SizeInBounds(cand)
        /\ \A i \in DOMAIN sim_calls :
              sim_calls[i].r_id = rtable[r_idx - 1].key => SizeInBounds(sim_calls[i].l_id)

\* the probe met a posting of a record outside the size bounds and verified
\* another record
C19_Witness ==
    /\ ProbeDone
    /\ \E n \in DOMAIN LastProbePostings : ~SizeInBounds(LastProbePostings[n][2])
    /\ \E i \in DOMAIN sim_calls : sim_calls[i].r_id = rtable[r_idx - 1].key

\* C20 (the overlap count is a lower bound): the count of a candidate
\* returned with a count above 0 is at most the number of tokens the probe
\* record and the candidate have in common, as the verifier computes it.
C20_OverlapLowerBound ==
    ProbeDone =>
        \A cand \in Range(candidate_overlap.keys) :
            candidate_overlap.val[cand] > 0 =>
                candidate_overlap.val[cand] <=
                    Cardinality(Range(l_join_attr_dict[cand]) \cap Range(LastProbeTokens))

----------------------------------------------------------------------------
\* the orders in which the values of a record dictionary can be iterated
IterationOrders(table) ==
    { [i \in DOMAIN table |-> table[f[i]]] : f \in Permutations(DOMAIN table) }

\* C14 (determinism): a run of the same driver on the same tables, tokenizer,
\* threshold and options gives the same set of output pairs with the same
\* scores, whatever the iteration order of the record dictionaries.
C14_Determinism ==
    pc = "done" =>
        \A L \in IterationOrders(ltable), R \in IterationOrders(rtable) :
            Range(worker_output(join_type, L, R, tokenizer, threshold, comp_op,
                                sim_function)) = Range(output_rows)

\* a finished join whose rows come in another order when ltable is iterated
\* in another order
C14_Witness ==
    /\ pc = "done" /\ IsSetSimJoin
    /\ \E L \in IterationOrders(ltable) :
          worker_output(join_type, L, rtable, tokenizer, threshold, comp_op,
                        sim_function) # output_rows

----------------------------------------------------------------------------
\* C17 (read-only index during probing): from the end of the index build
\* until the join returns, no step changes the posting lists or the size map
\* of the position index, the token ordering, or the cached ordered token
\* lists of ltable.
C17_ReadOnlyIndex ==
    [][(pc = "probe" /\ IsSetSimJoin) =>
          /\ position_index' = position_index
          /\ token_ordering' = token_ordering
          /\ l_join_attr_dict' = l_join_attr_dict]_vars

\* a probe asked a non-empty index for a token it does not hold
C17_Witness ==
    /\ ProbeDone
    /\ position_index.index # <<>>
    /\ \E i \in 1..get_prefix_length(Len(LastProbeTokens), sim_measure_type, threshold,
                                     tokenizer) :
          LastProbeTokens[i] \notin DOMAIN position_index.index

----------------------------------------------------------------------------
\* the drivers C11 names
ValidatingDrivers == {"JACCARD", "DICE", "EDIT_DISTANCE", "OVERLAP"}

\* nothing of the call has been done: the tokenizer's flag and the dtypes of
\* the join columns are the caller's, no token ordering, no index, no probe
NoWorkDone ==
    /\ tokenizer.return_set = orig_return_set
    /\ join_attr_dtype = orig_join_attr_type
    /\ token_ordering = <<>>
    /\ l_join_attr_dict = <<>>
    /\ position_index = NoIndex
    /\ prefix_index = <<>>
    /\ r_idx = 0
    /\ sim_calls = <<>>
    /\ output_rows = <<>>

\* C11 (validation precedes all work): when a call of jaccard_join,
\* dice_join, edit_distance_join or overlap_join has raised for an argument
\* that fails a validation, the tokenizer's return_set flag and the join
\* columns are as the caller passed them, and no token ordering, index build
\* or probing has taken place.
C11_ValidationFirst ==
    (pc = "raised" /\ invalid # "none" /\ join_type \in ValidatingDrivers) => NoWorkDone

----------------------------------------------------------------------------
\* C12 (no partial results on failure): when a join call or a sink has
\* raised, no table has been returned to the caller and the file written by
\* consume_into_csvfile holds no result row.
C12_NoPartialResults ==
    pc = "raised" => (returned = NoTable /\ csv_file = <<>>)

----------------------------------------------------------------------------
\* the table of the pairs whose overlap, repeated tokens counted, satisfies
\* comp_op against the threshold
bag_overlap_rows == overlap_filter_tables(ltable, rtable, set_return_set(tokenizer, FALSE), threshold, comp_op)

\* C13 (overlap_join works in bag mode): while OverlapFilter runs for a call
\* of overlap_join with a bag-mode tokenizer, the tokenizer has not been put
\* into set mode, and the table the call returns holds the pairs whose
\* overlap with repeated tokens counted satisfies comp_op against the
\* threshold.
C13_OverlapBagMode ==
    (join_type = "OVERLAP" /\ ~orig_return_set) =>
        /\ pc \in {"overlap_filter", "overlap_return"} => ~tokenizer.return_set
        /\ pc = "done" => returned = bag_overlap_rows

----------------------------------------------------------------------------
\* the 0-based position of a token in an ordered token list
PositionOf(token, ordered_tokens) ==
    (CHOOSE p \in DOMAIN ordered_tokens : ordered_tokens[p] = token) - 1

\* C21 (filter_pair uses true left positions): after filter_pair, its
\* left-prefix map gives every token of the ordered left prefix its 0-based
\* position in the ordered left token list, and the bound used on every match
\* at right position r_pos is 1 + min(n_l - l_pos - 1, n_r - r_pos - 1) with
\* l_pos that position.
C21_TrueLeftPositions ==
    pair_result.called =>
        LET ol == pair_result.ordered_ltokens
            or == pair_result.ordered_rtokens
        IN  /\ \A token \in DOMAIN pair_result.l_prefix_dict :
                  pair_result.l_prefix_dict[token] = PositionOf(token, ol)
            /\ \A i \in DOMAIN pair_result.matches :
                  LET met == pair_result.matches[i]
                  IN  met.overlap_upper_bound =
                          1 + Min(Len(ol) - PositionOf(met.token, ol) - 1,
                                  Len(or) - met.r_pos - 1)

----------------------------------------------------------------------------
\* C22 (single-pair and table filters agree): for two strings l and r,
\* filter_pair(l, r) returns True exactly when filter_tables on the one-row
\* tables {l} and {r} outputs no pair.
C22_PairAgreesWithTables ==
    (pc = "done" /\ join_type = "POSITION_FILTER") =>
        (pair_result.dropped <=> output_rows = <<>>)

----------------------------------------------------------------------------
\* the two strings given to the filter are a true match: both token sets are
\* non-empty and their similarity under the filter's measure is >= the
\* threshold
TrueMatch ==
    LET ltokens == tokenize(ltable[1].attr, tokenizer, filter_measure)
        rtokens == tokenize(rtable[1].attr, tokenizer, filter_measure)
    IN  /\ ltokens # <<>> /\ rtokens # <<>>
        /\ RatGe(get_sim_function(filter_measure, ltokens, rtokens), threshold)

\* C27 (filter_pair never drops a true match): when both strings have a
\* non-empty token set and their similarity is >= the threshold, filter_pair
\* returns False.
C27_NoFalseDrop ==
    (pair_result.called /\ TrueMatch) => ~pair_result.dropped

\* a true match of different strings that filter_pair kept after meeting two
\* matching tokens in the prefixes
C27_Witness ==
    /\ pair_result.called /\ TrueMatch
    /\ ltable[1].attr # rtable[1].attr
    /\ Len(pair_result.matches) >= 2
    /\ ~pair_result.dropped

----------------------------------------------------------------------------
\* the token count SizeIndex.build() takes of the row at position i (0-based)
RowTokenCount(i) == Len(tokenizer_tokenize(tokenizer, ltable[i + 1].attr))

\* the token counts whose posting list holds row position i, once per
\* occurrence
PostingsHolding(i) ==
    { <<n, k>> \in UNION { {n} \X DOMAIN size_index.index[n] : n \in DOMAIN size_index.index } :
        size_index.index[n][k] = i }

\* C30 (SizeIndex invariant): after SizeIndex.build() over a table of n rows,
\* each row position in 0..n-1 appears in exactly one posting list, the one
\* keyed by the token count of the row, and for n >= 1 min_length and
\* max_length are the smallest and the largest token count of the rows.
C30_SizeIndexInvariant ==
    (pc = "done" /\ join_type = "SIZE_INDEX") =>
        LET n == Len(ltable)
        IN  /\ \A i \in 0..(n - 1) :
                  /\ Cardinality(PostingsHolding(i)) = 1
                  /\ \E k \in DOMAIN SizeIndex_probe(size_index, RowTokenCount(i)) :
                        SizeIndex_probe(size_index, RowTokenCount(i))[k] = i
            /\ \A m \in DOMAIN size_index.index :
                  \A k \in DOMAIN size_index.index[m] : size_index.index[m][k] \in 0..(n - 1)
            /\ n >= 1 =>
                  /\ \E i \in 0..(n - 1) : size_index.min_length = RowTokenCount(i)
                  /\ \E i \in 0..(n - 1) : size_index.max_length = RowTokenCount(i)
                  /\ \A i \in 0..(n - 1) :
                        /\ size_index.min_length <= RowTokenCount(i)
                        /\ RowTokenCount(i) <= size_index.max_length

\* an index built over three rows of which two have the same token count and
\* whose smallest token count is not that of the first row
C30_Witness ==
    /\ pc = "done" /\ join_type = "SIZE_INDEX"
    /\ Len(ltable) = 3
    /\ Cardinality(DOMAIN size_index.index) = 2
    /\ size_index.min_length < RowTokenCount(0)
    /\ size_index.min_length < size_index.max_length

----------------------------------------------------------------------------
\* C28 (batch size bound of ration_output): for size >= 1, every batch
\* ration_output has yielded holds at least 1 and at most size results.
C28_BatchSizeBound ==
    size >= 1 => \A i \in DOMAIN batches : 1 <= Len(batches[i]) /\ Len(batches[i]) <= size

----------------------------------------------------------------------------
\* C29 (batching round trip): when consume_into_dataframe has returned for
\* ration_output(g, size), the rows of its table are the results of g, each
\* once and in g's order; an empty g gives an empty table.
C29_BatchingRoundTrip ==
    (pc = "done" /\ join_type = "CONSUME_DATAFRAME") => returned = results

\* a table assembled from a full batch followed by a smaller last batch
C29_Witness ==
    /\ pc = "done" /\ join_type = "CONSUME_DATAFRAME"
    /\ Len(batches) >= 2
    /\ Len(batches[Len(batches)]) < Len(batches[1])
    /\ returned = results

----------------------------------------------------------------------------
\* COMP_OP_MAP[comp_op](d, t) for an integer d and a threshold <<num, den>>
comp_fn_rational(op, d, t) ==
    CASE op = "<=" -> RatGe(t, <<d, 1>>)
      [] op = "<"  -> RatGt(t, <<d, 1>>)
      [] op = "="  -> RatEq(t, <<d, 1>>)

\* C26 (flooring the edit-distance threshold keeps the join condition): for
\* every threshold t >= 1 edit_distance_join accepts and each comp_op among
\* '<=', '<', '=', the candidates that pass verification are exactly those
\* whose edit distance d satisfies comp_op(d, t) for the caller's t.
C26_FloorKeepsCondition ==
    (pc = "done" /\ join_type = "EDIT_DISTANCE") =>
        \A i \in DOMAIN sim_calls :
            LET call == sim_calls[i]
            IN  (<<call.l_id, call.r_id>> \in OutputPairs) <=>
                    comp_fn_rational(comp_op, edit_distance(call.l_arg, call.r_arg), threshold)

----------------------------------------------------------------------------
\* the place of the rtable record with key r_id in the iteration over rtable
RPosition(r_id) == CHOOSE j \in DOMAIN rtable : rtable[j].key = r_id

\* C23 (output order follows probe order): in a worker, the rows of an R
\* record iterated earlier all precede the rows of an R record iterated
\* later, so the rows of one R record are contiguous, and no row belongs to
\* an R record whose pass of the loop has not run.
C23_OutputInProbeOrder ==
    join_type \in {"JACCARD", "DICE", "EDIT_DISTANCE", "BLACK_BOX"} =>
        /\ \A i, j \in DOMAIN output_rows :
              i < j => RPosition(output_rows[i].r_id) <= RPosition(output_rows[j].r_id)
        /\ \A i \in DOMAIN output_rows : RPosition(output_rows[i].r_id) < r_idx

\* a finished join whose output holds rows of two R records
C23_Witness ==
    /\ pc = "done" /\ join_type \in {"JACCARD", "EDIT_DISTANCE"}
    /\ \E i, j \in DOMAIN output_rows : output_rows[i].r_id # output_rows[j].r_id

----------------------------------------------------------------------------
\* C24 (the caller's tokenizer is left as found on normal return): when
\* dice_join or overlap_join has returned a table, the tokenizer's return_set
\* flag is what it was when the call started.
C24_TokenizerRestored ==
    (pc = "done" /\ join_type \in {"DICE", "OVERLAP"}) =>
        tokenizer.return_set = orig_return_set

\* overlap_join returned a non-empty table for a tokenizer that came in bag
\* mode and was switched to set mode for the run
C24_Witness ==
    /\ pc = "done" /\ join_type = "OVERLAP"
    /\ ~orig_return_set /\ revert_flag
    /\ returned # <<>>

----------------------------------------------------------------------------
\* C25 (the caller's state is restored on failure): when an exception has left
\* dice_join, overlap_join or edit_distance_join, the tokenizer's return_set
\* flag and the dtypes of the join columns are what they were before the call.
C25_RestoredOnFailure ==
    (pc = "raised" /\ join_type \in {"DICE", "OVERLAP", "EDIT_DISTANCE"}) =>
        /\ tokenizer.return_set = orig_return_set
        /\ join_attr_dtype = orig_join_attr_type

====
